---- MODULE Spec2Model ----
(***************************************************************************)
(* Debug location translation of the Jupyter extension: the two            *)
(* KernelDebugAdapter classes (interactive window and notebook), their     *)
(* dump store, the translation hooks and sendRequestToJupyterSession2.     *)
(***************************************************************************)
EXTENDS Integers, Sequences, FiniteSets, TLC

\* ------------------------------------------------------------------ bounds

\* dumpCell calls made in one session.
MaxDumps == 2
\* Breakpoints carried by one setBreakpoints request.
MaxBps == 2

\* ----------------------------------------------------------------- fixture
\* The notebook document the adapter was constructed with.  The interactive
\* window's document has four cells: cells 0..2 carry interactive-window
\* metadata, cell 3 carries none.  The notebook's document has two cells.

InteractiveCellIndexes == {0, 1, 2, 3}
NotebookCellIndexes == {0, 1}

F1 == "file:///w/f1.py"
F2 == "file:///w/f2.py"

\* Uri.parse(uristring): the parsed Uri, with its scheme and its path.
UriParse(uristring) ==
    CASE uristring = F1 -> [scheme |-> "file", path |-> "/w/f1.py"]
      [] uristring = F2 -> [scheme |-> "file", path |-> "/w/f2.py"]
      [] uristring = "vscode-notebook-cell:/w/nb.ipynb#c0" ->
            [scheme |-> "vscode-notebook-cell", path |-> "/w/nb.ipynb#c0"]
      [] OTHER -> [scheme |-> "vscode-notebook-cell", path |-> "/w/nb.ipynb#c1"]

\* Uri.toString()
UriToString(uri) ==
    IF uri.scheme = "file" THEN uri.scheme \o "://" \o uri.path
    ELSE uri.scheme \o ":" \o uri.path

\* path.basename
Basename(p) ==
    CASE p = "/w/f1.py" -> "f1.py"
      [] p = "/w/f2.py" -> "f2.py"
      [] OTHER -> "nb.ipynb"

\* getInteractiveCellMetadata(cell): the cell's interactive metadata; a cell
\* that is no interactive-window cell has none (the empty record).
\*   cell 0: f1, line 0, cell marker kept, generated offset 1  lineOffset 1
\*   cell 1: f1, line 1, no marker, one blank line stripped    lineOffset 2
\*   cell 2: f2, line 2, no generated code                     lineOffset 2
getInteractiveCellMetadata(index) ==
    CASE index = 0 ->
            [interactive |-> [uristring |-> F1, lineIndex |-> 0],
             generatedCode |-> [hasCellMarker |-> TRUE, firstNonBlankLineIndex |-> 1,
                                lineOffsetRelativeToIndexOfFirstLineInCell |-> 1]]
      [] index = 1 ->
            [interactive |-> [uristring |-> F1, lineIndex |-> 1],
             generatedCode |-> [hasCellMarker |-> FALSE, firstNonBlankLineIndex |-> 1,
                                lineOffsetRelativeToIndexOfFirstLineInCell |-> 0]]
      [] index = 2 ->
            [interactive |-> [uristring |-> F2, lineIndex |-> 2]]
      [] OTHER -> [none |-> TRUE]

HasMetadata(metadata) == "interactive" \in DOMAIN metadata

\* cell.document.uri of the notebook cell at an index.
CellDocumentUri(index) ==
    IF index = 0 THEN UriParse("vscode-notebook-cell:/w/nb.ipynb#c0")
    ELSE UriParse("vscode-notebook-cell:/w/nb.ipynb#c1")

\* The sourcePath values the kernel answers a dumpCell request with.
SourcePaths == {"/tmp/a.py", "/tmp//b.py"}

\* path.normalize of a kernel path.
Normalize(p) == IF p = "/tmp//b.py" THEN "/tmp/b.py" ELSE p

DebugFilePaths == {Normalize(p) : p \in SourcePaths}

\* Real (1-based) line numbers of the interactive-window files: the first
\* line of each cell.
Lines == {getInteractiveCellMetadata(i).interactive.lineIndex + 1 :
             i \in {j \in InteractiveCellIndexes : HasMetadata(getInteractiveCellMetadata(j))}}

\* ------------------------------------------------------------------- state

VARIABLES
    mode,          \* which KernelDebugAdapter the session constructed
    bridge,        \* the debug session: "Idle", "Active" or "Ended"
    store,         \* cellToDebugFileSortedInReverseOrderByLineNumber
    fileToCell,    \* base class map: debug file path -> Uri
    cellToFile,    \* notebook adapter map: cell uri string -> debug file path
    dumping,       \* cells whose dumpCell awaits the kernel's response
    dumpLog,       \* what the dumpCell calls that completed gave: the path
                   \* the kernel returned, the failure logged (traceError),
                   \* or the error the call raised
    request,       \* the request sendRequestToJupyterSession2 is handling
    pc,            \* where that activation stands
    customRequest, \* the setPydevdSourceMap request it sent, and its state
    awaited,       \* the promises it awaits (setBreakpointsRequests)
    settled,       \* the awaited promises the kernel settled, in that order
    response,      \* the response it returned
    kernelMessage, \* the latest message of the kernel that named a source
    clientMessage, \* that message as delivered to the editor
    tracker,       \* debugLocationTracker: the callbacks it defines and the
                   \* ones that throw, or no tracker
    trackerLog,    \* the calls made to the tracker, with their messages
    flow,          \* the messages passed on: to the base class's handler, or
                   \* to the editor
    thrown,        \* the errors the adapter's own code let escape
    generatedCode, \* metadata.generatedCode?.code of the cell being dumped
    cellText,      \* cell.document.getText() of the cell being dumped
    code,          \* the code sent in the body of the dumpCell request
    storedKernels,   \* per kernel provider, the kernel stored for each
                     \* notebook (or uri), with the options it was created for
    createdKernels,  \* the kernels constructed (new Kernel), in that order
    handedToDispose, \* the kernels handed to disposeOldKernel
    disposedKernels, \* the kernels whose onDisposed event fired
    kernelCall,      \* the latest getOrCreate call and what it returned
    useNativeNb,         \* VSCodeNotebook: the injected UseVSCodeNotebookEditorApi
    addedEventHandlers,  \* VSCodeNotebook.addedEventHandlers
    handledCellChanges,  \* VSCodeNotebook.handledCellChanges
    delivered,           \* the events the host delivered, in that order
    fired                \* the events _onDidChangeNotebookDocument fired

sessionVars == <<mode, bridge>>
dumpVars == <<store, fileToCell, cellToFile, dumping, dumpLog>>
requestVars == <<request, pc, customRequest, awaited, settled, response>>
messageVars == <<kernelMessage, clientMessage>>
trackerVars == <<tracker, trackerLog, flow, thrown>>
textVars == <<generatedCode, cellText, code>>
providerVars == <<storedKernels, createdKernels, handedToDispose, disposedKernels, kernelCall>>
notebookVars == <<useNativeNb, addedEventHandlers, handledCellChanges, delivered, fired>>

vars == <<mode, bridge, store, fileToCell, cellToFile, dumping, dumpLog, request,
          pc, customRequest, awaited, settled, response, kernelMessage,
          clientMessage, tracker, trackerLog, flow, thrown, generatedCode,
          cellText, code, storedKernels, createdKernels, handedToDispose,
          disposedKernels, kernelCall, useNativeNb, addedEventHandlers,
          handledCellChanges, delivered, fired>>

\* The cells of the document the constructed adapter reads.
CellIndexes == IF mode = "interactive" THEN InteractiveCellIndexes ELSE NotebookCellIndexes

\* A Map with no entries.
EmptyMap == [k \in {} |-> ""]

\* Map.set(key, value)
MapSet(map, key, value) ==
    [k \in DOMAIN map \cup {key} |-> IF k = key THEN value ELSE map[k]]

\* An object with no fields, and the absent request, response and message.
NoFields == [k \in {} |-> 0]
NoRequest == [command |-> "none"]
NoResponse == [none |-> TRUE]
NoMessage == [none |-> TRUE]
\* The rejection of a call made after the session ended.
SessionEndedError == [error |-> "SessionEndedError"]
\* The adapter constructed without a debugLocationTrackerFactory.
NoTracker == [none |-> TRUE]
\* A text: a sequence of characters.  The text that is absent.
NoText == <<"absent">>
\* A custom request as sent: its promise is pending.
Pending(req) == [k \in DOMAIN req \cup {"state"} |->
                    IF k = "state" THEN "pending" ELSE req[k]]

\* The session of an adapter before it started, nothing dumped or handled.
SessionInit ==
    /\ bridge = "Idle"
    /\ store = <<>>
    /\ fileToCell = EmptyMap
    /\ cellToFile = EmptyMap
    /\ dumping = {}
    /\ dumpLog = {}
    /\ request = NoRequest
    /\ pc = "idle"
    /\ customRequest = NoRequest
    /\ awaited = <<>>
    /\ settled = <<>>
    /\ response = NoResponse
    /\ kernelMessage = NoMessage
    /\ clientMessage = NoMessage

\* No tracker was configured, and nothing passed.
TrackerInit ==
    /\ tracker = NoTracker
    /\ trackerLog = <<>>
    /\ flow = <<>>
    /\ thrown = <<>>

\* No dumpCell request was built.
TextInit ==
    /\ generatedCode = NoText
    /\ cellText = NoText
    /\ code = NoText

\* The kernel providers, the notebooks (or uris) they are asked about, and
\* the ids of the kernel connections a caller can select.
Providers == {"KernelProvider", "ThirdPartyKernelProvider"}
Resources == {"a.ipynb", "b.ipynb"}
MetadataIds == {"python3", "julia"}
\* No kernel is stored for a notebook.  No getOrCreate call was made.
NoKernelInfo == [none |-> TRUE]
NoCall == [count |-> 0]

\* Two providers that were asked for nothing.
ProviderInit ==
    /\ storedKernels = [provider \in Providers |-> [resource \in Resources |-> NoKernelInfo]]
    /\ createdKernels = <<>>
    /\ handedToDispose = {}
    /\ disposedKernels = {}
    /\ kernelCall = NoCall

\* A VSCodeNotebook constructed without the native notebook API.
NotebookInit ==
    /\ useNativeNb = FALSE
    /\ addedEventHandlers = FALSE
    /\ handledCellChanges = {}
    /\ delivered = <<>>
    /\ fired = <<>>

Init ==
    /\ mode \in {"interactive", "notebook"}
    /\ SessionInit
    /\ TrackerInit
    /\ TextInit
    /\ ProviderInit
    /\ NotebookInit

\* ---------------------------------------------------------------- dumpCell

\* Mutant: the stripped lines are counted whether or not the generated code
\* kept its cell marker.
LineOffsetCountingStripped(metadata) ==
    LET hasCode == "generatedCode" \in DOMAIN metadata
    IN  (IF hasCode THEN metadata.generatedCode.firstNonBlankLineIndex ELSE 0)
        + metadata.interactive.lineIndex
        + (IF hasCode
           THEN metadata.generatedCode.lineOffsetRelativeToIndexOfFirstLineInCell
           ELSE 0)

\* lineOffset of a dumped interactive cell.
LineOffset(metadata) ==
    LET hasCode == "generatedCode" \in DOMAIN metadata
        numberOfStrippedLines ==
            IF hasCode /\ ~metadata.generatedCode.hasCellMarker
            THEN metadata.generatedCode.firstNonBlankLineIndex
            ELSE 0
    IN  numberOfStrippedLines
        + metadata.interactive.lineIndex
        + (IF hasCode
           THEN metadata.generatedCode.lineOffsetRelativeToIndexOfFirstLineInCell
           ELSE 0)

\* One step of the stable sort: the record goes behind every record whose
\* lineIndex is at least its own.
SortInsert(sorted, r) ==
    LET k == Cardinality({i \in 1..Len(sorted) :
                 sorted[i].metadata.interactive.lineIndex >= r.metadata.interactive.lineIndex})
    IN  SubSeq(sorted, 1, k) \o <<r>> \o SubSeq(sorted, k + 1, Len(sorted))

RECURSIVE SortSteps(_, _)
SortSteps(sorted, rest) ==
    IF rest = <<>> THEN sorted
    ELSE SortSteps(SortInsert(sorted, Head(rest)), Tail(rest))

\* Mutant: the sort left out, the records stay in the order of their dumps.
KeepDumpOrder(records) == records

\* Array.sort((a, b) => b.lineIndex - a.lineIndex): stable, descending.
SortReverseByLineNumber(records) == SortSteps(<<>>, records)

\* The record dumpCell pushes.
DumpRecord(metadata, norm) ==
    [debugFilePath |-> norm,
     interactiveWindow |-> UriParse(metadata.interactive.uristring),
     metadata |-> metadata,
     lineOffset |-> LineOffset(metadata)]

\* Mutant: the record is written at the place the store ended at when the
\* call started, here the first: the record of the call that was answered
\* before is overwritten.
PushAtStaleIndex(records, metadata, norm) ==
    SortReverseByLineNumber(<<DumpRecord(metadata, norm)>>)

\* The store after dumpCell's push and sort.
PushAndSort(records, metadata, norm) ==
    SortReverseByLineNumber(Append(records, DumpRecord(metadata, norm)))

\* ------------------------------------------------------ session lifecycle
\* The debug session starts after the adapter was constructed and ends once;
\* the base class takes calls while the session is active.

\* Mutant: calls are taken whatever the state of the session.
BridgeAcceptsAlways == bridge \in {"Idle", "Active", "Ended"}

BridgeAccepts == bridge = "Active"

StartSession ==
    /\ bridge = "Idle"
    /\ bridge' = "Active"
    /\ UNCHANGED <<mode, trackerVars, textVars, providerVars, notebookVars, dumpVars, requestVars, messageVars>>

\* onDidEndSession: the session is over; what is in flight settles as it may.
EndSession ==
    /\ bridge = "Active"
    /\ bridge' = "Ended"
    /\ UNCHANGED <<mode, trackerVars, textVars, providerVars, notebookVars, dumpVars, requestVars, messageVars>>

\* dumpCell up to its await: the metadata check (a cell with no interactive
\* metadata makes the interactive adapter throw before any request is sent),
\* then the dumpCell custom request.  The call is made between two
\* activations of the message handlers.
DumpCellStart(index) ==
    /\ BridgeAccepts
    /\ pc = "idle"
    /\ kernelMessage = NoMessage
    /\ index \notin dumping
    /\ Len(store) + Cardinality(dumping) < MaxDumps
    /\ Cardinality(dumpLog) + Cardinality(dumping) < MaxDumps
    /\ IF mode = "interactive" /\ ~HasMetadata(getInteractiveCellMetadata(index))
       THEN /\ dumpLog' = dumpLog \cup
                    {[index |-> index, error |-> "Not an interactive window cell"]}
            /\ dumping' = dumping
       ELSE /\ dumpLog' = dumpLog
            /\ dumping' = dumping \cup {index}
    /\ UNCHANGED <<sessionVars, trackerVars, textVars, providerVars, notebookVars, store, fileToCell, cellToFile, requestVars, messageVars>>

\* The kernel answered: the interactive adapter records the dump.
DumpCellResolveInteractive(index, sourcePath) ==
    /\ mode = "interactive"
    /\ index \in dumping
    /\ LET metadata == getInteractiveCellMetadata(index)
           norm == Normalize(sourcePath)
       IN  /\ fileToCell' = MapSet(fileToCell, norm, UriParse(metadata.interactive.uristring))
           /\ store' = PushAndSort(store, metadata, norm)
    /\ dumping' = dumping \ {index}
    /\ dumpLog' = dumpLog \cup {[index |-> index, sourcePath |-> sourcePath]}
    /\ UNCHANGED <<sessionVars, trackerVars, textVars, providerVars, notebookVars, cellToFile, requestVars, messageVars>>

\* The kernel answered: the notebook adapter records the dump.
DumpCellResolveNotebook(index, sourcePath) ==
    /\ mode = "notebook"
    /\ index \in dumping
    /\ LET norm == Normalize(sourcePath)
       IN  /\ fileToCell' = MapSet(fileToCell, norm, CellDocumentUri(index))
           /\ cellToFile' = MapSet(cellToFile, UriToString(CellDocumentUri(index)), norm)
    /\ dumping' = dumping \ {index}
    /\ dumpLog' = dumpLog \cup {[index |-> index, sourcePath |-> sourcePath]}
    /\ UNCHANGED <<sessionVars, trackerVars, textVars, providerVars, notebookVars, store, requestVars, messageVars>>

\* Mutant: the failure is logged and thrown on to the caller.
DumpCellRejectRaising(index) ==
    /\ index \in dumping
    /\ dumping' = dumping \ {index}
    /\ dumpLog' = dumpLog \cup {[index |-> index, traceError |-> "Failed to dump cell"],
                                [index |-> index, error |-> "Failed to dump cell"]}
    /\ UNCHANGED <<sessionVars, trackerVars, textVars, providerVars, notebookVars, store, fileToCell, cellToFile, requestVars, messageVars>>

\* The custom request rejected: the catch block logs and dumpCell returns.
DumpCellReject(index) ==
    /\ index \in dumping
    /\ dumping' = dumping \ {index}
    /\ dumpLog' = dumpLog \cup {[index |-> index, traceError |-> "Failed to dump cell"]}
    /\ UNCHANGED <<sessionVars, trackerVars, textVars, providerVars, notebookVars, store, fileToCell, cellToFile, requestVars, messageVars>>

\* ------------------------------------------------------- translation hooks
\* A source is an object with the optional fields path and name; a location
\* is an object with the optional fields line, endLine, lines and breakpoints
\* (each breakpoint an object with a line).  A hook changes both in place: it
\* is modelled by the pair it leaves behind.

HasPath(source) == "path" \in DOMAIN source /\ source.path # ""
HasLine(location) == "line" \in DOMAIN location
HasEndLine(location) == "endLine" \in DOMAIN location
HasLines(location) == "lines" \in DOMAIN location
HasBreakpoints(location) == "breakpoints" \in DOMAIN location

\* source.path = value; source.name = value (the field is added when absent)
SetField(object, field, value) ==
    [k \in DOMAIN object \cup {field} |-> IF k = field THEN value ELSE object[k]]

\* Array.find: the index of the first record the test accepts, 0 for none.
FindFirst(records, Test(_)) ==
    LET hits == {i \in 1..Len(records) : Test(records[i])}
    IN  IF hits = {} THEN 0 ELSE CHOOSE i \in hits : \A j \in hits : i <= j

\* line + (cell.lineOffset || 0)
ToRealLine(cell, line) == line + cell.lineOffset

\* Mutant: the offset added in the request direction too.
ToKernelLineAdding(cell, line) == line + cell.lineOffset

\* line - (cell.lineOffset || 0)
ToKernelLine(cell, line) == line - cell.lineOffset

\* The record whose debugFilePath is the path (0: none).
FindByDebugFilePath(records, path) ==
    LET Test(item) == item.debugFilePath = path
    IN  FindFirst(records, Test)

\* Mutant: the cell's 0-based start index compared with the 1-based line.
FindCellForLineOffByOne(records, line) ==
    LET Test(item) == item.metadata.interactive.lineIndex <= line
    IN  FindFirst(records, Test)

\* The record that owns a real line: the first whose cell starts at or before
\* it (0: none).
FindCellForLine(records, line) ==
    LET Test(item) == item.metadata.interactive.lineIndex + 1 <= line
    IN  FindFirst(records, Test)

\* The line fields of a location moved by a record's offset, debugger to real.
LinesToReal(cell, lines) ==
    LET a == IF HasEndLine(lines)
             THEN [lines EXCEPT !.endLine = ToRealLine(cell, @)] ELSE lines
        b == IF HasLine(a) THEN [a EXCEPT !.line = ToRealLine(cell, @)] ELSE a
    IN  IF HasLines(b)
        THEN [b EXCEPT !.lines = [i \in 1..Len(@) |-> ToRealLine(cell, @[i])]]
        ELSE b

\* Mutant: the end line is left as it came.
LocationToKernelKeepingEndLine(cell, location) ==
    LET b == IF HasLine(location)
             THEN [location EXCEPT !.line = ToKernelLine(cell, @)] ELSE location
    IN  IF HasBreakpoints(b)
        THEN [b EXCEPT !.breakpoints =
                 [i \in 1..Len(@) |-> [@[i] EXCEPT !.line = ToKernelLine(cell, @)]]]
        ELSE b

\* The line fields of a location moved by a record's offset, real to debugger.
LocationToKernel(cell, location) ==
    LET a == IF HasEndLine(location)
             THEN [location EXCEPT !.endLine = ToKernelLine(cell, @)] ELSE location
        b == IF HasLine(a) THEN [a EXCEPT !.line = ToKernelLine(cell, @)] ELSE a
    IN  IF HasBreakpoints(b)
        THEN [b EXCEPT !.breakpoints =
                 [i \in 1..Len(@) |-> [@[i] EXCEPT !.line = ToKernelLine(cell, @)]]]
        ELSE b

\* Interactive adapter, translateDebuggerFileToRealFile.
TranslateDebuggerFileToRealFile(records, source, lines) ==
    IF ~HasPath(source) \/ (~HasLine(lines) /\ ~HasLines(lines))
    THEN [source |-> source, lines |-> lines]
    ELSE LET c == FindByDebugFilePath(records, source.path)
         IN  IF c = 0
             THEN [source |-> source, lines |-> lines]
             ELSE [source |-> SetField(SetField(source, "name",
                                  Basename(records[c].interactiveWindow.path)),
                              "path", UriToString(records[c].interactiveWindow)),
                   lines |-> LinesToReal(records[c], lines)]

\* Mutant: the found cell is used whatever file it belongs to.
TranslateRealLocationAnyFile(records, source, location) ==
    LET same == [source |-> source, location |-> location, threw |-> FALSE]
    IN  IF ~HasPath(source) \/ (~HasLine(location) /\ ~HasBreakpoints(location))
        THEN same
        ELSE IF ~(HasLine(location) /\ location.line # 0)
                /\ ~(HasBreakpoints(location) /\ Len(location.breakpoints) > 0)
        THEN [same EXCEPT !.threw = TRUE]
        ELSE LET startLine == IF HasLine(location) /\ location.line # 0
                              THEN location.line
                              ELSE location.breakpoints[1].line
                 c == FindCellForLine(records, startLine)
             IN  IF c = 0
                 THEN same
                 ELSE [source |-> SetField(source, "path", records[c].debugFilePath),
                       location |-> LocationToKernel(records[c], location),
                       threw |-> FALSE]

\* Interactive adapter, translateRealLocationToDebuggerLocation.  threw: the
\* read of breakpoints[0].line of an empty breakpoints array, a TypeError.
TranslateRealLocationToDebuggerLocation(records, source, location) ==
    LET same == [source |-> source, location |-> location, threw |-> FALSE]
    IN  IF ~HasPath(source) \/ (~HasLine(location) /\ ~HasBreakpoints(location))
        THEN same
        ELSE IF ~(HasLine(location) /\ location.line # 0)
                /\ ~(HasBreakpoints(location) /\ Len(location.breakpoints) > 0)
        THEN [same EXCEPT !.threw = TRUE]
        ELSE LET startLine == IF HasLine(location) /\ location.line # 0
                              THEN location.line
                              ELSE location.breakpoints[1].line
                 c == FindCellForLine(records, startLine)
             IN  IF c = 0 \/ records[c].interactiveWindow.path # source.path
                 THEN same
                 ELSE [source |-> SetField(source, "path", records[c].debugFilePath),
                       location |-> LocationToKernel(records[c], location),
                       threw |-> FALSE]

\* Notebook adapter, translateRealLocationToDebuggerLocation.
NotebookTranslateRealLocationToDebuggerLocation(map, source, location) ==
    IF HasPath(source) /\ source.path \in DOMAIN map
    THEN [source |-> SetField(source, "path", map[source.path]),
          location |-> location, threw |-> FALSE]
    ELSE [source |-> source, location |-> location, threw |-> FALSE]

\* Base class, translateDebuggerFileToRealFile (the notebook adapter does not
\* override it): a known debug file is renamed to its cell.
BaseTranslateDebuggerFileToRealFile(map, source, lines) ==
    IF HasPath(source) /\ source.path \in DOMAIN map
    THEN [source |-> SetField(SetField(source, "name", Basename(map[source.path].path)),
                              "path", UriToString(map[source.path])),
          lines |-> lines]
    ELSE [source |-> source, lines |-> lines]

\* ------------------------------------------------------------ base session
\* A request is its command, its arguments.source and the location fields
\* of its arguments.

\* The hook the constructed adapter gives the base class for requests.
HookRealToDebugger(source, location) ==
    IF mode = "interactive"
    THEN TranslateRealLocationToDebuggerLocation(store, source, location)
    ELSE NotebookTranslateRealLocationToDebuggerLocation(cellToFile, source, location)

\* The hook the constructed adapter gives the base class for what the kernel
\* sends.
HookDebuggerToReal(source, lines) ==
    IF mode = "interactive"
    THEN TranslateDebuggerFileToRealFile(store, source, lines)
    ELSE BaseTranslateDebuggerFileToRealFile(fileToCell, source, lines)

\* Base class sendRequestToJupyterSession2 up to its await: the request's
\* source and location go through the hook, and the request is sent to the
\* kernel session.  The promise it returns: pending, with the request as sent.
BaseSendRequest(req) ==
    LET t == HookRealToDebugger(req.source, req.location)
    IN  [kind |-> IF t.threw THEN "threw" ELSE "super",
         state |-> IF t.threw THEN "rejected" ELSE "pending",
         forwarded |-> [command |-> req.command, source |-> t.source,
                        location |-> t.location],
         response |-> NoResponse]

\* The kernel's answer to a forwarded request: one verified breakpoint per
\* requested breakpoint, in order, at the requested line of the requested
\* file; no breakpoints for a request that carried none.
KernelAnswer(forwarded) ==
    [body |-> [breakpoints |->
        IF HasBreakpoints(forwarded.location)
        THEN [i \in 1..Len(forwarded.location.breakpoints) |->
                 [verified |-> TRUE,
                  line |-> forwarded.location.breakpoints[i].line,
                  source |-> forwarded.source]]
        ELSE <<>>]]

\* Base class, on the kernel's reply: every breakpoint of the body goes
\* through the hook with its own source.
BaseTranslateResponse(resp) ==
    [body |-> [breakpoints |->
        [i \in 1..Len(resp.body.breakpoints) |->
            LET bp == resp.body.breakpoints[i]
                t == HookDebuggerToReal(bp.source,
                         [k \in DOMAIN bp \ {"source"} |-> bp[k]])
            IN  [k \in DOMAIN bp |-> IF k = "source" THEN t.source ELSE t.lines[k]]]]]

\* ---------------------------------------------- sendRequestToJupyterSession2

\* The commands a request carries: setBreakpoints, the command the
\* interactive adapter's partitioning branch tests for, a request with a
\* source and a line range, and a request with no source at all.
Commands == {"setBreakpoints", "2setBreakpoints", "breakpointLocations", "threads"}

\* The source paths the editor names: the interactive-window files, or the
\* notebook's cells.
RequestPaths ==
    IF mode = "interactive"
    THEN {UriParse(F1).path, UriParse(F2).path}
    ELSE {UriToString(CellDocumentUri(0)), UriToString(CellDocumentUri(1))}

\* The breakpoints arrays of a setBreakpoints request.
BreakpointArrays ==
    UNION {[1..n -> {[line |-> l] : l \in Lines}] : n \in 0..MaxBps}

\* The requests the editor sends.
Requests ==
    {[command |-> c, source |-> [path |-> p], location |-> [breakpoints |-> b]] :
        c \in {"setBreakpoints", "2setBreakpoints"}, p \in RequestPaths,
        b \in BreakpointArrays}
    \cup {[command |-> "breakpointLocations", source |-> [path |-> p],
           location |-> [line |-> l, endLine |-> l + 1]] :
             p \in RequestPaths, l \in Lines \cup {0}}
    \cup {[command |-> "breakpointLocations", source |-> [path |-> p],
           location |-> [line |-> l]] : p \in RequestPaths, l \in Lines}
    \cup {[command |-> "threads", source |-> NoFields, location |-> NoFields]}

\* Interactive adapter: the setPydevdSourceMap request of a setBreakpoints
\* request.  It reads the first record of the store.
SourceMapRequest(records, req) ==
    [command |-> "setPydevdSourceMap",
     source |-> [path |-> req.source.path],
     pydevdSourceMaps |->
        <<[endLine |-> 3, line |-> 1, runtimeLine |-> 2,
           runtimeSource |-> [path |-> "/private" \o records[1].debugFilePath]]>>]

\* Notebook adapter: the setPydevdSourceMap request of a setBreakpoints
\* request.  A cell with no dumped file gives the path '/privateundefined'.
NotebookSourceMapRequest(map, req) ==
    [command |-> "setPydevdSourceMap",
     source |-> [path |-> "<" \o req.source.path],
     pydevdSourceMaps |->
        <<[endLine |-> 3, line |-> 1, runtimeLine |-> 2,
           runtimeSource |-> [path |-> "/private" \o
               (IF req.source.path \in DOMAIN map THEN map[req.source.path]
                ELSE "undefined")]]>>]

\* Mutant: the promise of a breakpoint no record owns resolves with no
\* breakpoint in its body.
FakePromiseEmpty(bp) ==
    [kind |-> "fake", state |-> "resolved", forwarded |-> NoRequest,
     response |-> [body |-> [breakpoints |-> <<>>]]]

\* The promise of a breakpoint no record owns: resolved, with the breakpoint
\* marked verified.
FakePromise(bp) ==
    [kind |-> "fake", state |-> "resolved", forwarded |-> NoRequest,
     response |-> [body |-> [breakpoints |-> <<SetField(bp, "verified", TRUE)>>]]]

\* sendIfNeeded: the breakpoints collected for the current cell leave as one
\* cloned request, sent through the base class.
SendIfNeeded(req, currentCellBps, promises) ==
    IF currentCellBps # <<>>
    THEN Append(promises,
                BaseSendRequest([req EXCEPT !.location.breakpoints = currentCellBps]))
    ELSE promises

\* The loop over the request's breakpoints, from breakpoint i on.
\* currentCellLine is the set holding the current line offset (empty at first).
RECURSIVE PartitionLoop(_, _, _, _, _)
PartitionLoop(req, i, currentCellLine, currentCellBps, promises) ==
    IF i > Len(req.location.breakpoints)
    THEN SendIfNeeded(req, currentCellBps, promises)
    ELSE LET bp == req.location.breakpoints[i]
             cellForBp == FindCellForLine(store, bp.line)
         IN  IF cellForBp # 0 /\ store[cellForBp].lineOffset \notin currentCellLine
             THEN PartitionLoop(req, i + 1, {store[cellForBp].lineOffset}, <<bp>>,
                                SendIfNeeded(req, currentCellBps, promises))
             ELSE IF cellForBp # 0
             THEN PartitionLoop(req, i + 1, currentCellLine,
                                Append(currentCellBps, bp), promises)
             ELSE PartitionLoop(req, i + 1, currentCellLine, currentCellBps,
                                Append(promises, FakePromise(bp)))

\* setBreakpointsRequests when the loop and the last sendIfNeeded are done.
PartitionBreakpoints(req) == PartitionLoop(req, 1, {}, <<>>, <<>>)

\* The merged response: the first response, then the breakpoints of the others.
RECURSIVE ConcatBreakpoints(_, _)
ConcatBreakpoints(responses, i) ==
    IF i > Len(responses) THEN <<>>
    ELSE responses[i].body.breakpoints \o ConcatBreakpoints(responses, i + 1)

\* Mutant: the responses are merged last first.
MergeResponsesLastFirst(responses) ==
    [body |-> [breakpoints |->
        ConcatBreakpoints([k \in 1..Len(responses) |->
                              responses[Len(responses) + 1 - k]], 1)]]

MergeResponses(responses) ==
    [body |-> [breakpoints |-> ConcatBreakpoints(responses, 1)]]

Settled(promises) == \A k \in 1..Len(promises) : promises[k].state = "resolved"

\* Mutant: Promise.allSettled; the responses of the promises that resolved
\* are merged when no promise is pending.
AwaitAllSettled(promises) ==
    LET resolved == SelectSeq(promises, LAMBDA q : q.state = "resolved")
    IN  /\ awaited' = promises
        /\ IF resolved = <<>>
              /\ \A k \in 1..Len(promises) : promises[k].state # "pending"
           THEN pc' = "rejected" /\ response' = NoResponse
           ELSE IF \A k \in 1..Len(promises) : promises[k].state # "pending"
           THEN /\ pc' = "returned"
                /\ response' = MergeResponses([k \in 1..Len(resolved) |->
                                                  resolved[k].response])
           ELSE pc' = "awaitAll" /\ response' = NoResponse

\* What the activation does once it waits for promises: with none it fails
\* (no first response to copy), with all of them resolved it returns the
\* merged response, with a rejected one it rejects, else it waits.
Await(promises) ==
    /\ awaited' = promises
    /\ IF promises = <<>> \/ \E k \in 1..Len(promises) : promises[k].state = "rejected"
       THEN pc' = "rejected" /\ response' = NoResponse
       ELSE IF Settled(promises)
       THEN /\ pc' = "returned"
            /\ response' = MergeResponses([k \in 1..Len(promises) |-> promises[k].response])
       ELSE pc' = "awaitAll" /\ response' = NoResponse

\* Mutant: the command is not tested, the source map is sent for every
\* request; args.source.path of a request with no source is a TypeError.
SendRequestMappingEvery(req) ==
    /\ BridgeAccepts
    /\ pc = "idle"
    /\ kernelMessage = NoMessage
    /\ request' = req
    /\ settled' = <<>>
    /\ awaited' = <<>>
    /\ response' = NoResponse
    /\ IF ~HasPath(req.source) \/ (mode = "interactive" /\ store = <<>>)
       THEN /\ pc' = "rejected"
            /\ customRequest' = NoRequest
       ELSE /\ pc' = "awaitSourceMap"
            /\ customRequest' = Pending(IF mode = "interactive"
                                        THEN SourceMapRequest(store, req)
                                        ELSE NotebookSourceMapRequest(cellToFile, req))
    /\ UNCHANGED <<sessionVars, trackerVars, textVars, providerVars, notebookVars, dumpVars, messageVars>>

\* The handler up to its first await.
SendRequest(req) ==
    /\ BridgeAccepts
    /\ pc = "idle"
    /\ kernelMessage = NoMessage
    /\ request' = req
    /\ settled' = <<>>
    /\ IF req.command = "setBreakpoints" /\ mode = "interactive"
       THEN IF store = <<>>
            THEN /\ pc' = "rejected"
                 /\ customRequest' = NoRequest
                 /\ awaited' = <<>>
                 /\ response' = NoResponse
            ELSE /\ pc' = "awaitSourceMap"
                 /\ customRequest' = Pending(SourceMapRequest(store, req))
                 /\ awaited' = <<>>
                 /\ response' = NoResponse
       ELSE IF req.command = "setBreakpoints"
       THEN /\ pc' = "awaitSourceMap"
            /\ customRequest' = Pending(NotebookSourceMapRequest(cellToFile, req))
            /\ awaited' = <<>>
            /\ response' = NoResponse
       ELSE IF req.command = "2setBreakpoints" /\ mode = "interactive"
               /\ store # <<>> /\ store[1].interactiveWindow.path = req.source.path
       THEN /\ customRequest' = NoRequest
            /\ Await(PartitionBreakpoints(req))
       ELSE /\ customRequest' = NoRequest
            /\ Await(<<BaseSendRequest(req)>>)
    /\ UNCHANGED <<sessionVars, trackerVars, textVars, providerVars, notebookVars, dumpVars, messageVars>>

\* A request of the editor that arrives when the session has ended: the base
\* class rejects it and the adapter's handler is not reached.
RejectAfterEnded(req) ==
    /\ bridge = "Ended"
    /\ pc = "idle"
    /\ kernelMessage = NoMessage
    /\ request' = req
    /\ pc' = "rejected"
    /\ response' = SessionEndedError
    /\ UNCHANGED <<sessionVars, trackerVars, textVars, providerVars, notebookVars, dumpVars, customRequest, awaited, settled, messageVars>>

\* setPydevdSourceMap was answered: the request goes to the base class (the
\* notebook adapter first puts '<' before the path of its source).
SourceMapResolve ==
    /\ pc = "awaitSourceMap"
    /\ customRequest' = [customRequest EXCEPT !.state = "resolved"]
    /\ Await(<<BaseSendRequest(
                 IF mode = "interactive" THEN request
                 ELSE [request EXCEPT !.source.path = "<" \o @])>>)
    /\ UNCHANGED <<sessionVars, trackerVars, textVars, providerVars, notebookVars, dumpVars, request, settled, messageVars>>

\* Mutant: the rejection of setPydevdSourceMap is caught and the request is
\* forwarded all the same.
SourceMapRejectCaught ==
    /\ pc = "awaitSourceMap"
    /\ customRequest' = [customRequest EXCEPT !.state = "rejected"]
    /\ Await(<<BaseSendRequest(
                 IF mode = "interactive" THEN request
                 ELSE [request EXCEPT !.source.path = "<" \o @])>>)
    /\ UNCHANGED <<sessionVars, trackerVars, textVars, providerVars, notebookVars, dumpVars, request, settled, messageVars>>

\* setPydevdSourceMap rejected: so does the handler.
SourceMapReject ==
    /\ pc = "awaitSourceMap"
    /\ pc' = "rejected"
    /\ customRequest' = [customRequest EXCEPT !.state = "rejected"]
    /\ UNCHANGED <<sessionVars, trackerVars, textVars, providerVars, notebookVars, dumpVars, request, awaited, settled, response, messageVars>>

\* The kernel answers the k-th awaited request; the base class translates the
\* answer back.  The last answer lets the handler return.
KernelReply(k) ==
    /\ pc = "awaitAll"
    /\ k \in 1..Len(awaited)
    /\ awaited[k].state = "pending"
    /\ Await([awaited EXCEPT ![k].state = "resolved",
                             ![k].response = BaseTranslateResponse(KernelAnswer(awaited[k].forwarded))])
    /\ settled' = Append(settled, k)
    /\ UNCHANGED <<sessionVars, trackerVars, textVars, providerVars, notebookVars, dumpVars, request, customRequest, messageVars>>

\* The kernel session rejects the k-th awaited request: Promise.all rejects.
KernelReject(k) ==
    /\ pc = "awaitAll"
    /\ k \in 1..Len(awaited)
    /\ awaited[k].state = "pending"
    /\ Await([awaited EXCEPT ![k].state = "rejected"])
    /\ settled' = Append(settled, k)
    /\ UNCHANGED <<sessionVars, trackerVars, textVars, providerVars, notebookVars, dumpVars, request, customRequest, messageVars>>

\* ------------------------------------------------------- kernel to editor

\* The messages of the kernel that name a source: a line, a line range, lines,
\* an end line only, or no line at all, in a dumped file or in another file;
\* and a message that names no source and no line.
KernelLines == {1, 2}

KernelMessages ==
    LET paths == DebugFilePaths \cup {"/usr/lib/os.py"}
    IN  {[source |-> [path |-> p], lines |-> [line |-> l]] :
            p \in paths, l \in KernelLines}
        \cup {[source |-> [path |-> p], lines |-> [line |-> l, endLine |-> l + 1]] :
            p \in paths, l \in KernelLines}
        \cup {[source |-> [path |-> p], lines |-> [lines |-> <<l, l + 1>>]] :
            p \in paths, l \in KernelLines}
        \cup {[source |-> [path |-> p], lines |-> [endLine |-> l]] :
            p \in paths, l \in KernelLines}
        \cup {[source |-> [path |-> p], lines |-> NoFields] : p \in paths}
        \cup {[source |-> NoFields, lines |-> NoFields]}

\* A message of the kernel goes through the hook and on to the editor.
KernelMessage(msg) ==
    /\ BridgeAccepts
    /\ pc = "idle"
    /\ kernelMessage = NoMessage
    /\ kernelMessage' = msg
    /\ clientMessage' = HookDebuggerToReal(msg.source, msg.lines)
    /\ UNCHANGED <<sessionVars, trackerVars, textVars, providerVars, notebookVars, dumpVars, requestVars>>

\* The activation is over (the handler returned or rejected, the message was
\* delivered): what it held is gone, and the next message is taken up.
Finish ==
    /\ pc \in {"returned", "rejected"} \/ kernelMessage # NoMessage
    /\ request' = NoRequest
    /\ pc' = "idle"
    /\ customRequest' = NoRequest
    /\ awaited' = <<>>
    /\ settled' = <<>>
    /\ response' = NoResponse
    /\ kernelMessage' = NoMessage
    /\ clientMessage' = NoMessage
    /\ UNCHANGED <<sessionVars, trackerVars, textVars, providerVars, notebookVars, dumpVars>>

\* ----------------------------------------------------------------- cleanup

\* Mutant: the keys of the map (the files the cells belong to) are returned
\* in place of its values.
DumpFilesFromKeys ==
    [p \in DebugFilePaths \cup RequestPaths |->
        IF mode = "interactive"
        THEN Cardinality({i \in 1..Len(store) : store[i].interactiveWindow.path = p})
        ELSE Cardinality({c \in DOMAIN cellToFile : c = p})]

\* getDumpFilesForDeletion: the debugFilePath of every record of the store
\* (the values of cellToFile in the notebook adapter).  The array is given as
\* the number of times each path occurs in it.
getDumpFilesForDeletion ==
    [p \in DebugFilePaths \cup RequestPaths |->
        IF mode = "interactive"
        THEN Cardinality({i \in 1..Len(store) : store[i].debugFilePath = p})
        ELSE Cardinality({c \in DOMAIN cellToFile : cellToFile[c] = p})]

\* ---------------------------------------------------------- specification

Next ==
    \/ StartSession
    \/ EndSession
    \/ bridge = "Ended" /\ pc = "idle" /\ \E req \in Requests : RejectAfterEnded(req)
    \/ \E index \in CellIndexes : DumpCellStart(index)
    \/ \E index \in CellIndexes, sourcePath \in SourcePaths :
            DumpCellResolveInteractive(index, sourcePath)
    \/ \E index \in CellIndexes, sourcePath \in SourcePaths :
            DumpCellResolveNotebook(index, sourcePath)
    \/ \E index \in CellIndexes : DumpCellReject(index)
    \/ BridgeAccepts /\ pc = "idle" /\ \E req \in Requests : SendRequest(req)
    \/ SourceMapResolve
    \/ SourceMapReject
    \/ \E k \in 1..MaxBps : KernelReply(k)
    \/ \E k \in 1..MaxBps : KernelReject(k)
    \/ BridgeAccepts /\ pc = "idle" /\ \E msg \in KernelMessages : KernelMessage(msg)
    \/ Finish

Spec == Init /\ [][Next]_vars

\* -------------------------------------------------------- location tracker
\* The interactive adapter constructed with a debugLocationTrackerFactory:
\* the tracker it creates is called from the constructor, from
\* handleClientMessageAsync and from the two listeners the constructor
\* registers.  A callback is optional, and a callback may throw.

\* Messages passed in one session.
MaxMessages == 2

CallbackNames == {"onWillStartSession", "onWillReceiveMessage",
                  "onDidSendMessage", "onWillStopSession"}

\* createDebugAdapterTracker(session): the callbacks the tracker defines, and
\* the ones among them that throw.
Trackers == UNION {{[callbacks |-> c, throws |-> t] : t \in SUBSET c} :
                      c \in SUBSET CallbackNames}

\* this.debugLocationTracker?.<callback> is defined; the call of it throws.
Defines(callback) == tracker # NoTracker /\ callback \in tracker.callbacks
Throws(callback) == Defines(callback) /\ callback \in tracker.throws

\* DebugProtocol.ProtocolMessage: what the editor hands to the adapter, and
\* what the adapter sends to the editor.
ClientMessages == {[type |-> "request", command |-> "threads"],
                   [type |-> "request", command |-> "setBreakpoints"],
                   [type |-> "response", command |-> "runInTerminal"],
                   [type |-> "event", event |-> "custom"]}
AdapterMessages == {[type |-> "response", command |-> "threads"],
                    [type |-> "event", event |-> "stopped"]}

\* The constructor: the tracker is created and onWillStartSession is called
\* before the listeners are registered.  An error thrown there leaves the
\* constructor, and no adapter exists; else the session becomes active.
Construct ==
    /\ bridge = "Idle"
    /\ thrown = <<>>
    /\ trackerLog' = IF Defines("onWillStartSession")
                     THEN Append(trackerLog, [callback |-> "onWillStartSession"])
                     ELSE trackerLog
    /\ IF Throws("onWillStartSession")
       THEN /\ thrown' = Append(thrown, [in |-> "constructor"])
            /\ bridge' = bridge
       ELSE /\ thrown' = thrown
            /\ bridge' = "Active"
    /\ UNCHANGED <<mode, tracker, flow, textVars, providerVars, notebookVars, dumpVars, requestVars, messageVars>>

\* The tracker callback handleClientMessageAsync calls for a message.
CallbackFor(message) ==
    IF message.type = "request" /\ Defines("onWillReceiveMessage")
    THEN "onWillReceiveMessage"
    ELSE IF message.type = "response" /\ Defines("onDidSendMessage")
         THEN "onDidSendMessage"
         ELSE "none"

\* handleClientMessageAsync(message): the tracker first, then the base
\* class's handler.
HandleClientMessageAsync(message) ==
    /\ bridge = "Active"
    /\ Len(flow) + Len(thrown) < MaxMessages
    /\ LET callback == CallbackFor(message)
       IN  /\ trackerLog' = IF callback = "none" THEN trackerLog
                            ELSE Append(trackerLog, [callback |-> callback,
                                                     message |-> message])
           /\ IF callback # "none" /\ Throws(callback)
              THEN /\ thrown' = Append(thrown, [in |-> "handleClientMessageAsync",
                                                message |-> message])
                   /\ flow' = flow
              ELSE /\ thrown' = thrown
                   /\ flow' = Append(flow, [to |-> "adapter", message |-> message])
    /\ UNCHANGED <<sessionVars, tracker, textVars, providerVars, notebookVars, dumpVars, requestVars, messageVars>>

\* The adapter sends a message to the editor: the event fires and the
\* listener of the constructor passes the message to the tracker.  The event
\* emitter keeps a listener's error from the sender.
SendMessage(message) ==
    /\ bridge = "Active"
    /\ Len(flow) + Len(thrown) < MaxMessages
    /\ flow' = Append(flow, [to |-> "editor", message |-> message])
    /\ trackerLog' = IF Defines("onDidSendMessage")
                     THEN Append(trackerLog, [callback |-> "onDidSendMessage",
                                              message |-> message])
                     ELSE trackerLog
    /\ UNCHANGED <<sessionVars, tracker, thrown, textVars, providerVars, notebookVars, dumpVars, requestVars,
                   messageVars>>

\* The session ends: the listener of the constructor calls onWillStopSession.
OnDidEndSession ==
    /\ bridge = "Active"
    /\ bridge' = "Ended"
    /\ trackerLog' = IF Defines("onWillStopSession")
                     THEN Append(trackerLog, [callback |-> "onWillStopSession"])
                     ELSE trackerLog
    /\ UNCHANGED <<mode, tracker, flow, thrown, textVars, providerVars, notebookVars, dumpVars, requestVars,
                   messageVars>>

TrackerSpecInit ==
    /\ mode = "interactive"
    /\ SessionInit
    /\ tracker \in Trackers \cup {NoTracker}
    /\ trackerLog = <<>>
    /\ flow = <<>>
    /\ thrown = <<>>
    /\ TextInit
    /\ ProviderInit
    /\ NotebookInit

TrackerNext ==
    \/ Construct
    \/ \E message \in ClientMessages : HandleClientMessageAsync(message)
    \/ \E message \in AdapterMessages : SendMessage(message)
    \/ OnDidEndSession

TrackerSpec == TrackerSpecInit /\ [][TrackerNext]_vars

\* ------------------------------------------------------ the code of dumpCell
\* The code a dumpCell request carries: the generated code of the cell when
\* it has any, else the cell's text, with /\r\n/g replaced by '\n'.

\* The length of a cell's text.
MaxTextLen == 3

\* A character: carriage return, line feed, or another one.
Chars == {"CR", "LF", "a"}
Texts == UNION {[1..n -> Chars] : n \in 0..MaxTextLen}

\* String.replace(/\r\n/g, '\n'): one pass from the left; each match is
\* replaced and the search goes on after it.
RECURSIVE ReplaceCRLF(_, _)
ReplaceCRLF(text, i) ==
    IF i > Len(text) THEN <<>>
    ELSE IF i < Len(text) /\ text[i] = "CR" /\ text[i + 1] = "LF"
    THEN <<"LF">> \o ReplaceCRLF(text, i + 2)
    ELSE <<text[i]>> \o ReplaceCRLF(text, i + 1)

\* metadata.generatedCode?.code || cell.document.getText(): an absent or
\* empty generated code gives the cell's text.
CodeOfCell ==
    IF mode = "interactive" /\ generatedCode # NoText /\ generatedCode # <<>>
    THEN generatedCode
    ELSE cellText

\* dumpCell builds the body of its custom request.
DumpCellCode ==
    /\ BridgeAccepts
    /\ code = NoText
    /\ code' = ReplaceCRLF(CodeOfCell, 1)
    /\ UNCHANGED <<sessionVars, trackerVars, generatedCode, cellText, dumpVars,
                   providerVars, notebookVars,
                   requestVars, messageVars>>

TextSpecInit ==
    /\ mode \in {"interactive", "notebook"}
    /\ SessionInit
    /\ TrackerInit
    /\ generatedCode \in IF mode = "interactive" THEN Texts \cup {NoText} ELSE {NoText}
    /\ cellText \in Texts
    /\ code = NoText
    /\ ProviderInit
    /\ NotebookInit

TextNext ==
    \/ StartSession
    \/ DumpCellCode

TextSpec == TextSpecInit /\ [][TextNext]_vars

\* ------------------------------------------------- two dumps in flight
\* The adapter with the dumpCell calls of two cells awaiting the kernel at
\* the same time: the state after StartSession and two DumpCellStart steps.
\* The responses arrive in either order, and the session may end first.

\* The cells dumpCell gets as far as its await for.
DumpableCells ==
    IF mode = "interactive"
    THEN {i \in InteractiveCellIndexes : HasMetadata(getInteractiveCellMetadata(i))}
    ELSE NotebookCellIndexes

ConcurrentDumpInit ==
    /\ mode \in {"interactive", "notebook"}
    /\ bridge = "Active"
    /\ store = <<>>
    /\ fileToCell = EmptyMap
    /\ cellToFile = EmptyMap
    /\ dumping \in {d \in SUBSET DumpableCells : Cardinality(d) = 2}
    /\ dumpLog = {}
    /\ request = NoRequest
    /\ pc = "idle"
    /\ customRequest = NoRequest
    /\ awaited = <<>>
    /\ settled = <<>>
    /\ response = NoResponse
    /\ kernelMessage = NoMessage
    /\ clientMessage = NoMessage
    /\ TrackerInit
    /\ TextInit
    /\ ProviderInit
    /\ NotebookInit

ConcurrentDumpNext ==
    \/ EndSession
    \/ \E index \in CellIndexes, sourcePath \in SourcePaths :
            DumpCellResolveInteractive(index, sourcePath)
    \/ \E index \in CellIndexes, sourcePath \in SourcePaths :
            DumpCellResolveNotebook(index, sourcePath)
    \/ \E index \in CellIndexes : DumpCellReject(index)

ConcurrentDumpSpec == ConcurrentDumpInit /\ [][ConcurrentDumpNext]_vars

\* ------------------------------------------------------ kernel providers
\* KernelProvider.getOrCreate(notebook, options) and
\* ThirdPartyKernelProvider.getOrCreate(uri, options).  The two classes run
\* the same steps; each keeps its own kernels.  A kernel is named by its
\* position in createdKernels.

\* The getOrCreate calls made in one run.
MaxCalls == 3

\* The options of a call: the kernel connection the caller selected.
KernelOptions == {[metadata |-> [id |-> id]] : id \in MetadataIds}

\* What a provider keeps: the stored kernels and the kernels it disposed of.
ProviderState == [stored |-> storedKernels, handed |-> handedToDispose]

\* getInternal(notebook): the kernel stored for the notebook, with its options.
GetInternal(provider, resource) == storedKernels[provider][resource]

\* Mutant: no selection counts as unchanged.
SelectionNeverUnchanged(existingKernelInfo, options) == FALSE

\* The test of getOrCreate: a kernel is stored and was created for the same
\* kernel connection.
SelectionUnchanged(existingKernelInfo, options) ==
    /\ existingKernelInfo # NoKernelInfo
    /\ existingKernelInfo.options.metadata.id = options.metadata.id

\* disposeOldKernel(notebook): the stored kernel, if any, is removed from the
\* store and disposed of.
DisposeOldKernel(state, provider, resource) ==
    LET kernelToDispose == state.stored[provider][resource]
    IN  IF kernelToDispose = NoKernelInfo
        THEN state
        ELSE [stored |-> [state.stored EXCEPT ![provider][resource] = NoKernelInfo],
              handed |-> state.handed \cup {kernelToDispose.kernel}]

\* storeKernel(notebook, options, kernel)
StoreKernel(state, provider, resource, options, kernel) ==
    [state EXCEPT !.stored[provider][resource] = [options |-> options, kernel |-> kernel]]

\* Mutant: the new kernel is stored first, and disposeOldKernel runs after.
StoreThenDisposeOld(state, provider, resource, options, kernel) ==
    DisposeOldKernel(StoreKernel(state, provider, resource, options, kernel),
                     provider, resource)

\* The steps of getOrCreate once the selection changed: disposeOldKernel,
\* new Kernel, then storeKernel.
DisposeOldThenStore(state, provider, resource, options, kernel) ==
    StoreKernel(DisposeOldKernel(state, provider, resource),
                provider, resource, options, kernel)

\* The handler deleteMappingIfKernelIsDisposed registers on kernel.onDisposed:
\* the mapping goes when it still names this kernel.
DeleteMappingIfKernelIsDisposed(stored, provider, resource, kernel) ==
    IF stored[provider][resource] # NoKernelInfo /\ stored[provider][resource].kernel = kernel
    THEN [stored EXCEPT ![provider][resource] = NoKernelInfo]
    ELSE stored

\* The record of a call.
CallOf(provider, resource, options, kernel) ==
    [count |-> kernelCall.count + 1, provider |-> provider, resource |-> resource,
     options |-> options, returned |-> kernel]

GetOrCreate(provider, resource, options) ==
    LET existingKernelInfo == GetInternal(provider, resource)
        kernel == Len(createdKernels) + 1
        after == DisposeOldThenStore(ProviderState, provider, resource, options, kernel)
    IN  /\ kernelCall.count < MaxCalls
        /\ IF SelectionUnchanged(existingKernelInfo, options)
           THEN /\ kernelCall' = CallOf(provider, resource, options, existingKernelInfo.kernel)
                /\ UNCHANGED <<storedKernels, createdKernels, handedToDispose>>
           ELSE /\ createdKernels' = Append(createdKernels,
                        [provider |-> provider, uri |-> resource,
                         kernelConnectionMetadata |-> options.metadata])
                /\ storedKernels' = after.stored
                /\ handedToDispose' = after.handed
                /\ kernelCall' = CallOf(provider, resource, options, kernel)
        /\ UNCHANGED <<sessionVars, trackerVars, textVars, notebookVars, dumpVars,
                       requestVars, messageVars, disposedKernels>>

\* A kernel is disposed, by disposeOldKernel or by anyone else holding it, and
\* its onDisposed event reaches the provider that created it.
KernelDisposed(kernel) ==
    /\ kernel \in 1..Len(createdKernels)
    /\ kernel \notin disposedKernels
    /\ disposedKernels' = disposedKernels \cup {kernel}
    /\ storedKernels' = DeleteMappingIfKernelIsDisposed(storedKernels,
            createdKernels[kernel].provider, createdKernels[kernel].uri, kernel)
    /\ UNCHANGED <<sessionVars, trackerVars, textVars, notebookVars, dumpVars,
                   requestVars, messageVars, createdKernels, handedToDispose,
                   kernelCall>>

ProviderSpecInit ==
    /\ mode \in {"interactive", "notebook"}
    /\ SessionInit
    /\ TrackerInit
    /\ TextInit
    /\ ProviderInit
    /\ NotebookInit

ProviderNext ==
    \/ \E provider \in Providers, resource \in Resources, options \in KernelOptions :
            GetOrCreate(provider, resource, options)
    \/ \E kernel \in 1..MaxCalls : KernelDisposed(kernel)

ProviderSpec == ProviderSpecInit /\ [][ProviderNext]_vars

\* -------------------------------------------------------- VSCodeNotebook
\* The handlers VSCodeNotebook.addEventHandlers registers on the host's
\* notebook events, and what they fire on onDidChangeNotebookDocument.

\* The events the host delivers in one run.
MaxDeliveries == 3

\* The event objects of the host.  One that is delivered again is the same
\* object, still referenced, so the WeakSet still holds it.
HostEvents == {[document |-> "a.ipynb", object |-> n] : n \in 1..2}

\* { ...e, type }
WithType(e, type) ==
    [k \in DOMAIN e \cup {"type"} |-> IF k = "type" THEN type ELSE e[k]]

\* A handler was called with an event and fires it with its type.
Fire(emitter, e, type) ==
    /\ addedEventHandlers
    /\ Len(delivered) < MaxDeliveries
    /\ delivered' = Append(delivered, [emitter |-> emitter, event |-> e])
    /\ fired' = Append(fired, WithType(e, type))

OnDidChangeCellMetadata(e) ==
    /\ Fire("onDidChangeCellMetadata", e, "changeCellMetadata")
    /\ UNCHANGED <<sessionVars, trackerVars, textVars, providerVars, dumpVars,
                   requestVars, messageVars, useNativeNb, addedEventHandlers,
                   handledCellChanges>>

OnDidChangeNotebookDocumentMetadata(e) ==
    /\ Fire("onDidChangeNotebookDocumentMetadata", e, "changeNotebookMetadata")
    /\ UNCHANGED <<sessionVars, trackerVars, textVars, providerVars, dumpVars,
                   requestVars, messageVars, useNativeNb, addedEventHandlers,
                   handledCellChanges>>

OnDidChangeCellOutputs(e) ==
    /\ Fire("onDidChangeCellOutputs", e, "changeCellOutputs")
    /\ UNCHANGED <<sessionVars, trackerVars, textVars, providerVars, dumpVars,
                   requestVars, messageVars, useNativeNb, addedEventHandlers,
                   handledCellChanges>>

\* Mutant: no event counts as handled.
NeverHandled(handled, e) == FALSE

\* handledCellChanges.has(e)
AlreadyHandled(handled, e) == e \in handled

OnDidChangeNotebookCells(e) ==
    /\ addedEventHandlers
    /\ Len(delivered) < MaxDeliveries
    /\ delivered' = Append(delivered, [emitter |-> "onDidChangeNotebookCells", event |-> e])
    /\ IF AlreadyHandled(handledCellChanges, e)
       THEN UNCHANGED <<handledCellChanges, fired>>
       ELSE /\ handledCellChanges' = handledCellChanges \cup {e}
            /\ fired' = Append(fired, WithType(e, "changeCells"))
    /\ UNCHANGED <<sessionVars, trackerVars, textVars, providerVars, dumpVars,
                   requestVars, messageVars, useNativeNb, addedEventHandlers>>

\* The constructor: addEventHandlers runs when the native notebook API is used.
NotebookSpecInit ==
    /\ mode \in {"interactive", "notebook"}
    /\ SessionInit
    /\ TrackerInit
    /\ TextInit
    /\ ProviderInit
    /\ useNativeNb \in BOOLEAN
    /\ addedEventHandlers = useNativeNb
    /\ handledCellChanges = {}
    /\ delivered = <<>>
    /\ fired = <<>>

NotebookNext ==
    \E e \in HostEvents :
        \/ OnDidChangeCellMetadata(e)
        \/ OnDidChangeNotebookDocumentMetadata(e)
        \/ OnDidChangeCellOutputs(e)
        \/ OnDidChangeNotebookCells(e)

NotebookSpec == NotebookSpecInit /\ [][NotebookNext]_vars

\* ------------------------------------------------------------ properties

LineIndexOf(item) == item.metadata.interactive.lineIndex

\* The line offsets of the fixture's interactive cells, and the line numbers
\* the checks range over: every line of the fixture, moved by every offset
\* in both directions.
Offsets == {LineOffset(getInteractiveCellMetadata(i)) :
               i \in {j \in InteractiveCellIndexes : HasMetadata(getInteractiveCellMetadata(j))}}
TestLines == UNION {{l, l + o, l - o} : l \in Lines \cup KernelLines \cup {0}, o \in Offsets}

\* The requests the activation handed to the kernel session, in order.
Forwarded(promises) ==
    LET sent == SelectSeq(promises, LAMBDA q : q.kind = "super")
    IN  [k \in 1..Len(sent) |-> sent[k].forwarded]

\* The request as the base class receives it from the adapter.
HookInput(req) ==
    IF mode = "notebook" /\ req.command = "setBreakpoints"
    THEN [req EXCEPT !.source.path = "<" \o @]
    ELSE req

\* No record of the dump store is for this debug file.
NoRecordForDebugFile(path) ==
    IF mode = "interactive"
    THEN \A i \in 1..Len(store) : store[i].debugFilePath # path
    ELSE path \notin DOMAIN fileToCell

\* No record of the dump store is for this real source.
NoRecordForRealSource(path) ==
    IF mode = "interactive"
    THEN \A i \in 1..Len(store) : store[i].interactiveWindow.path # path
    ELSE path \notin DOMAIN cellToFile

\* C1: with one record's offset, a line moved to kernel coordinates and back
\* is the line it was, and so the other way round; and whenever the adapter
\* has translated a message of the kernel, a record of the path it named
\* takes the line, the end line and each element of the lines it delivered
\* back to the ones the kernel sent.
C1_RoundTrip ==
    /\ \A i \in 1..Len(store) : \A line \in TestLines :
          /\ ToRealLine(store[i], ToKernelLine(store[i], line)) = line
          /\ ToKernelLine(store[i], ToRealLine(store[i], line)) = line
    /\ (mode = "interactive" /\ kernelMessage # NoMessage
        /\ clientMessage.source # kernelMessage.source)
       => \E i \in 1..Len(store) :
             /\ store[i].debugFilePath = kernelMessage.source.path
             /\ LET sent == kernelMessage.lines
                    got == clientMessage.lines
                IN  /\ DOMAIN got = DOMAIN sent
                    /\ HasLine(sent) => ToKernelLine(store[i], got.line) = sent.line
                    /\ HasEndLine(sent) => ToKernelLine(store[i], got.endLine) = sent.endLine
                    /\ HasLines(sent) =>
                          /\ Len(got.lines) = Len(sent.lines)
                          /\ \A k \in 1..Len(sent.lines) :
                                ToKernelLine(store[i], got.lines[k]) = sent.lines[k]

\* C1 witness: a message of the kernel with a line and an end line was
\* delivered at other lines than the kernel named.
C1_Witness ==
    /\ mode = "interactive"
    /\ kernelMessage # NoMessage
    /\ HasLine(kernelMessage.lines) /\ HasEndLine(kernelMessage.lines)
    /\ clientMessage.lines.line # kernelMessage.lines.line
    /\ clientMessage.lines.endLine # kernelMessage.lines.endLine

\* C2: a message whose source path no record of the dump store matches
\* leaves the translation as it entered it: a message of the kernel is
\* delivered with its source and its lines unchanged, and a request of the
\* editor reaches the kernel session with its source and location unchanged.
C2_FailOpen ==
    /\ (kernelMessage # NoMessage /\ HasPath(kernelMessage.source)
        /\ NoRecordForDebugFile(kernelMessage.source.path))
       => /\ clientMessage.source = kernelMessage.source
          /\ clientMessage.lines = kernelMessage.lines
    /\ (request # NoRequest /\ HasPath(request.source)
        /\ NoRecordForRealSource(HookInput(request).source.path))
       => \A k \in 1..Len(awaited) :
             /\ awaited[k].forwarded.source = HookInput(request).source
             /\ awaited[k].forwarded.location = request.location

\* C2 witness: cells are dumped, and a request with breakpoints in a file
\* none of them belongs to has been sent on as it came.
C2_Witness ==
    /\ mode = "interactive"
    /\ store # <<>>
    /\ request # NoRequest
    /\ HasBreakpoints(request.location) /\ request.location.breakpoints # <<>>
    /\ NoRecordForRealSource(request.source.path)
    /\ Len(awaited) = 1 /\ awaited[1].kind = "super"
    /\ awaited[1].forwarded.source = request.source
    /\ awaited[1].forwarded.location = request.location

\* C3: no two records of the dump store share a debugFilePath, and no cell
\* has more than one record.
C3_UniqueRecords ==
    \A i, j \in 1..Len(store) :
        i # j => /\ store[i].debugFilePath # store[j].debugFilePath
                 /\ store[i].metadata # store[j].metadata

\* C4: a path the store holds for one logical source is never taken over by
\* or shared with another: the records of one debugFilePath are all of one
\* cell, and no two notebook cells map to one file.
C4_NoSilentMerge ==
    /\ \A i, j \in 1..Len(store) :
          store[i].debugFilePath = store[j].debugFilePath
             => store[i].metadata = store[j].metadata
    /\ \A a, b \in DOMAIN cellToFile : cellToFile[a] = cellToFile[b] => a = b

\* C5: the lookup of the record that owns a real line returns the record
\* with the greatest start line index strictly less than the line, and none
\* exactly when every record starts at or after the line.
C5_NearestPreceding ==
    \A line \in TestLines :
        LET c == FindCellForLine(store, line)
            below == {i \in 1..Len(store) : LineIndexOf(store[i]) < line}
        IN  /\ (c = 0) <=> (below = {})
            /\ c # 0 => /\ c \in below
                        /\ \A i \in below : LineIndexOf(store[i]) <= LineIndexOf(store[c])

\* C5 witness: a request with a line was translated with the record that
\* owns the line, which is not the first record of the store.
C5_Witness ==
    /\ mode = "interactive"
    /\ request # NoRequest /\ request.command = "breakpointLocations"
    /\ Len(awaited) = 1 /\ awaited[1].kind = "super"
    /\ LET c == FindCellForLine(store, request.location.line)
       IN  /\ c > 1
           /\ LineIndexOf(store[1]) >= request.location.line
           /\ awaited[1].forwarded.source.path = store[c].debugFilePath
           /\ store[c].debugFilePath # store[1].debugFilePath

\* C6: the records of the interactive adapter's store are in descending
\* order of their cells' start line index.
C6_SortedDescending ==
    \A i, j \in 1..Len(store) :
        i < j => LineIndexOf(store[i]) >= LineIndexOf(store[j])

\* C6 witness: the store holds records of cells that start at different lines.
C6_Witness ==
    /\ Len(store) >= 2
    /\ LineIndexOf(store[1]) > LineIndexOf(store[Len(store)])

\* ---------------------------------------- properties of setBreakpoints

\* The breakpoints of a request, and the record (its index in the store, 0
\* for none) that owns each.
BreakpointsOf(req) == req.location.breakpoints
OwnerOf(bp) == FindCellForLine(store, bp.line)

\* The contiguous runs of breakpoints of one owner, in request order.
RECURSIVE RunsFrom(_, _, _)
RunsFrom(bps, i, runs) ==
    IF i > Len(bps) THEN runs
    ELSE IF runs # <<>> /\ runs[Len(runs)].owner = OwnerOf(bps[i])
    THEN RunsFrom(bps, i + 1,
                  [runs EXCEPT ![Len(runs)].breakpoints = Append(@, bps[i])])
    ELSE RunsFrom(bps, i + 1,
                  Append(runs, [owner |-> OwnerOf(bps[i]), breakpoints |-> <<bps[i]>>]))

Runs(req) == RunsFrom(BreakpointsOf(req), 1, <<>>)

\* The breakpoints of a request form runs owned by as many different
\* records, all of them records of the file the request names, each with a
\* debug file of its own.
RunsOfDifferentRecords(req) ==
    LET runs == Runs(req)
    IN  /\ runs # <<>>
        /\ \A a \in 1..Len(runs) :
              /\ runs[a].owner # 0
              /\ store[runs[a].owner].interactiveWindow.path = req.source.path
        /\ \A a, b \in 1..Len(runs) :
              a # b => /\ runs[a].owner # runs[b].owner
                       /\ store[runs[a].owner].debugFilePath
                             # store[runs[b].owner].debugFilePath

\* The step in which the handler of a setBreakpoints request hands what it
\* sends to the kernel session, and the step in which it returns.
ForwardsSetBreakpoints ==
    /\ mode = "interactive"
    /\ pc \in {"idle", "awaitSourceMap"}
    /\ awaited' # <<>>
    /\ request'.command = "setBreakpoints"

ReturnsSetBreakpoints ==
    /\ mode = "interactive"
    /\ pc # "returned"
    /\ pc' = "returned"
    /\ request'.command = "setBreakpoints"

\* The lines of all breakpoints that reached the kernel session, in order.
RECURSIVE ForwardedLines(_, _)
ForwardedLines(requests, k) ==
    IF k > Len(requests) THEN <<>>
    ELSE [i \in 1..Len(requests[k].location.breakpoints) |->
             requests[k].location.breakpoints[i].line]
         \o ForwardedLines(requests, k + 1)

\* C7: a setBreakpoints request whose breakpoints form k contiguous runs
\* owned by k different records leaves as exactly k sub-requests, the i-th
\* to the debug file of the i-th run's record with the run's lines less the
\* record's lineOffset, and the response that comes back has one breakpoint
\* per requested breakpoint.
C7_OneSubRequestPerRun ==
    [][/\ (ForwardsSetBreakpoints /\ RunsOfDifferentRecords(request'))
          => LET runs == Runs(request')
                 subs == Forwarded(awaited')
             IN  /\ Len(subs) = Len(runs)
                 /\ \A a \in 1..Len(runs) :
                       /\ subs[a].source.path = store[runs[a].owner].debugFilePath
                       /\ subs[a].location.breakpoints =
                             [i \in 1..Len(runs[a].breakpoints) |->
                                 [line |-> runs[a].breakpoints[i].line
                                           - store[runs[a].owner].lineOffset]]
       /\ (ReturnsSetBreakpoints /\ RunsOfDifferentRecords(request'))
          => Len(response'.body.breakpoints) = Len(BreakpointsOf(request'))
      ]_vars

\* C8: a setBreakpoints request whose breakpoints belong to more than one
\* dumped file never reaches the kernel session as a single request: it
\* leaves as at least one sub-request per dumped file, each with the
\* breakpoints of one file only.
C8_SetBreakpointsIsPartitioned ==
    [][ForwardsSetBreakpoints
          => LET bps == BreakpointsOf(request')
                 files == {store[OwnerOf(bps[i])].debugFilePath :
                              i \in {j \in 1..Len(bps) : OwnerOf(bps[j]) # 0}}
                 subs == Forwarded(awaited')
             IN  Cardinality(files) > 1
                    => /\ Len(subs) >= Cardinality(files)
                       /\ \A a \in 1..Len(subs) :
                             Len(subs[a].location.breakpoints) < Len(bps)
      ]_vars

\* C9: every breakpoint of a setBreakpoints request reaches the kernel at
\* its own line less the lineOffset of the record that owns that line.
C9_OwnOffsetPerBreakpoint ==
    [][(/\ ForwardsSetBreakpoints
        /\ \A i \in 1..Len(BreakpointsOf(request')) :
              /\ OwnerOf(BreakpointsOf(request')[i]) # 0
              /\ store[OwnerOf(BreakpointsOf(request')[i])].interactiveWindow.path
                    = request'.source.path)
          => ForwardedLines(Forwarded(awaited'), 1) =
                [i \in 1..Len(BreakpointsOf(request')) |->
                    BreakpointsOf(request')[i].line
                    - store[OwnerOf(BreakpointsOf(request')[i])].lineOffset]
      ]_vars

\* C10: a breakpoint of a setBreakpoints request that no record owns is in
\* no sub-request (only owned breakpoints reach the kernel session), and the
\* response holds it as requested, marked verified.
C10_UnownedBreakpointIsFaked ==
    [][/\ ForwardsSetBreakpoints
          => Len(ForwardedLines(Forwarded(awaited'), 1)) =
                Cardinality({i \in 1..Len(BreakpointsOf(request')) :
                                OwnerOf(BreakpointsOf(request')[i]) # 0})
       /\ ReturnsSetBreakpoints
          => \A i \in 1..Len(BreakpointsOf(request')) :
                OwnerOf(BreakpointsOf(request')[i]) = 0
                   => \E k \in 1..Len(response'.body.breakpoints) :
                         response'.body.breakpoints[k] =
                            SetField(BreakpointsOf(request')[i], "verified", TRUE)
      ]_vars

\* --------------------------------------------------- merging the responses

\* The promises awaited are those of requests sent through the base class.
IsSubRequest(q) == q.kind = "super"

\* The number of breakpoints the responses of the promises before the k-th hold.
RECURSIVE BreakpointsBefore(_, _)
BreakpointsBefore(promises, k) ==
    IF k <= 1 THEN 0
    ELSE BreakpointsBefore(promises, k - 1)
           + Len(promises[k - 1].response.body.breakpoints)

\* The breakpoints of a response are the groups of the promises, each group
\* at the place the construction order of the promises gives it.
GroupsInConstructionOrder(promises, resp) ==
    /\ Len(resp.body.breakpoints) = BreakpointsBefore(promises, Len(promises) + 1)
    /\ \A k \in 1..Len(promises) :
         \A j \in 1..Len(promises[k].response.body.breakpoints) :
            resp.body.breakpoints[BreakpointsBefore(promises, k) + j]
               = promises[k].response.body.breakpoints[j]

\* C11: while the handler awaits its promises none of them changes place and
\* no response exists; the response it returns exists only when every promise
\* has resolved, and holds the groups in the order the promises were
\* constructed in, whatever the order the kernel settled them in.
C11_MergeAfterAllInConstructionOrder ==
    [][/\ pc = "awaitAll" /\ pc' # "idle"
          => /\ Len(awaited') = Len(awaited)
             /\ \A k \in 1..Len(awaited) :
                   /\ awaited'[k].kind = awaited[k].kind
                   /\ awaited'[k].forwarded = awaited[k].forwarded
       /\ pc' = "awaitAll" => response' = NoResponse
       /\ pc' = "returned"
          => /\ \A k \in 1..Len(awaited') : awaited'[k].state = "resolved"
             /\ GroupsInConstructionOrder(awaited', response')
      ]_vars

\* Two sub-requests were in flight together, the kernel answered the second
\* before the first, and the merged response was returned.
C11_Witness ==
    /\ pc = "returned"
    /\ Len(awaited) = 2
    /\ IsSubRequest(awaited[1]) /\ IsSubRequest(awaited[2])
    /\ settled = <<2, 1>>
    /\ Len(response.body.breakpoints) = 2

\* C12: once a promise the handler awaits has rejected, the handler has
\* rejected and there is no response, whatever the other promises gave.
C12_RejectsAsAWhole ==
    (\E k \in 1..Len(awaited) : awaited[k].state = "rejected")
        => pc = "rejected" /\ response = NoResponse

\* Of two sub-requests in flight together one was answered and the other
\* rejected.
C12_Witness ==
    /\ pc = "rejected"
    /\ Len(awaited) = 2
    /\ \E k \in 1..2 : IsSubRequest(awaited[k]) /\ awaited[k].state = "resolved"
    /\ \E k \in 1..2 : IsSubRequest(awaited[k]) /\ awaited[k].state = "rejected"

\* C13: a setBreakpoints request is with the kernel session only when the
\* setPydevdSourceMap request sent for it has resolved; when that request
\* rejected, nothing was forwarded and the handler rejected.
C13_SourceMapBeforeForward ==
    /\ request.command = "setBreakpoints" /\ awaited # <<>>
          => /\ customRequest.command = "setPydevdSourceMap"
             /\ customRequest.state = "resolved"
    /\ request.command = "setBreakpoints" /\ pc = "awaitSourceMap"
          => /\ customRequest.command = "setPydevdSourceMap"
             /\ customRequest.state = "pending"
             /\ awaited = <<>>
    /\ customRequest # NoRequest /\ customRequest.state = "rejected"
          => awaited = <<>> /\ pc = "rejected"

\* The source map request of a setBreakpoints request resolved and the
\* request was forwarded.
C13_Witness ==
    /\ request.command = "setBreakpoints"
    /\ customRequest # NoRequest /\ customRequest.state = "resolved"
    /\ Forwarded(awaited) # <<>>
    /\ Forwarded(awaited)[1].command = "setBreakpoints"

\* ----------------------------------------------------------------- cleanup

\* The dumps the kernel answered.
Successes == {d \in dumpLog : "sourcePath" \in DOMAIN d}

\* The paths getDumpFilesForDeletion returns, and how many it returns.
ReturnedPaths == {p \in DOMAIN getDumpFilesForDeletion : getDumpFilesForDeletion[p] > 0}

RECURSIVE SumOver(_, _)
SumOver(f, S) ==
    IF S = {} THEN 0
    ELSE LET x == CHOOSE y \in S : TRUE IN f[x] + SumOver(f, S \ {x})

ReturnedCount == SumOver(getDumpFilesForDeletion, DOMAIN getDumpFilesForDeletion)

\* The debugFilePath values the store holds.
StorePaths ==
    IF mode = "interactive"
    THEN {store[i].debugFilePath : i \in 1..Len(store)}
    ELSE {cellToFile[c] : c \in DOMAIN cellToFile}

\* The dumps answered so far were of different cells and gave different
\* paths, each cell dumped once.
DistinctDumps ==
    /\ Successes # {}
    /\ \A d, e \in Successes :
          d # e => d.index # e.index /\ d.sourcePath # e.sourcePath
    /\ mode = "interactive" => Len(store) = Cardinality(Successes)

\* C14 (as amended): after N answered dumps of N different cells with N
\* different paths, getDumpFilesForDeletion returns N paths, each the
\* normalized form of a path the kernel returned, and they are the
\* debugFilePath values of the store.
C14_CleanupCompleteNormalized ==
    DistinctDumps
        => /\ ReturnedCount = Cardinality(Successes)
           /\ \A p \in ReturnedPaths :
                 \E d \in Successes : p = Normalize(d.sourcePath)
           /\ ReturnedPaths = StorePaths

\* Two different cells were dumped to two different paths, one of them a path
\* that path.normalize changes.
C14_Witness ==
    /\ DistinctDumps
    /\ Cardinality(Successes) = 2
    /\ \E d \in Successes : Normalize(d.sourcePath) # d.sourcePath
    /\ ReturnedCount = 2

\* C14 (as stated): ... each of the N paths equal to one of the paths the
\* kernel returned.
C14_CleanupCompleteAsReturned ==
    DistinctDumps
        => /\ ReturnedCount = Cardinality(Successes)
           /\ \A p \in ReturnedPaths : \E d \in Successes : p = d.sourcePath
           /\ ReturnedPaths = StorePaths

\* C15: getDumpFilesForDeletion holds the file of every dump the kernel
\* answered in this session, also of a dump a later dump of the same cell
\* replaced.
C15_CleanupExhaustive ==
    \A d \in Successes : getDumpFilesForDeletion[Normalize(d.sourcePath)] > 0

\* ------------------------------------------------------- kernel to editor

\* The step in which a message of the kernel is translated and delivered.
DeliversKernelMessage == kernelMessage = NoMessage /\ kernelMessage' # NoMessage

\* The logical sources of the cells dumped to a debug file.
LogicalSourcesOf(path) ==
    IF mode = "interactive"
    THEN {UriToString(store[i].interactiveWindow) :
             i \in {j \in 1..Len(store) : store[j].debugFilePath = path}}
    ELSE {UriToString(fileToCell[q]) : q \in {path} \cap DOMAIN fileToCell}

\* C16: a message of the kernel that names the file p of a dumped cell and a
\* line n reaches the editor with the cell's logical source as its path and
\* the line n + o, o the lineOffset of the cell.
C16_StoppedEventInRealCoordinates ==
    [][DeliversKernelMessage /\ mode = "interactive" /\ HasLine(kernelMessage'.lines)
        => \A i \in 1..Len(store) :
              store[i].debugFilePath = kernelMessage'.source.path
                 => /\ clientMessage'.source.path = UriToString(store[i].interactiveWindow)
                    /\ clientMessage'.lines.line
                          = kernelMessage'.lines.line + store[i].lineOffset
      ]_vars

\* C17: a message of the kernel whose source.path is a known debug file
\* reaches the editor with the logical source as its path, whichever line
\* fields it carries.
C17_PathRewrittenWhateverTheLines ==
    [][(/\ DeliversKernelMessage
        /\ HasPath(kernelMessage'.source)
        /\ ~NoRecordForDebugFile(kernelMessage'.source.path))
        => clientMessage'.source.path \in LogicalSourcesOf(kernelMessage'.source.path)
      ]_vars

\* ---------------------------------------------------------------- failures

\* C18: the dumpCell call whose custom request rejected logs the failure,
\* raises no error and records nothing: the records and both maps are as they
\* were.
C18_DumpFailureLeavesStore ==
    [][(\E d \in dumpLog' \ dumpLog : "traceError" \in DOMAIN d)
        => /\ store' = store
           /\ fileToCell' = fileToCell
           /\ cellToFile' = cellToFile
           /\ \A d \in dumpLog' \ dumpLog :
                 "error" \notin DOMAIN d /\ "sourcePath" \notin DOMAIN d
      ]_vars

\* A dumpCell request was rejected after another dump had been recorded.
C18_Witness ==
    /\ \E d \in dumpLog : "traceError" \in DOMAIN d
    /\ Successes # {}
    /\ dumping = {}

\* C19: a setBreakpoints request for a source the store holds no record of
\* does not make the handler fail.
C19_UnmappedRequestIsNotBlocked ==
    [][/\ request = NoRequest /\ request' # NoRequest
       /\ bridge = "Active"
       /\ request'.command = "setBreakpoints"
       /\ NoRecordForRealSource(request'.source.path)
        => pc' # "rejected"
      ]_vars

\* C20: the session goes from Idle to Active and from Active to Ended and
\* nowhere else; a request taken up after it ended is rejected with
\* SessionEndedError and nothing of it is sent to the kernel session.
C20_EndedIsTerminal ==
    [][/\ bridge' # bridge
          => \/ bridge = "Idle" /\ bridge' = "Active"
             \/ bridge = "Active" /\ bridge' = "Ended"
       /\ bridge = "Ended" /\ request' # request /\ request' # NoRequest
          => /\ pc' = "rejected"
             /\ response' = SessionEndedError
             /\ awaited' = <<>>
             /\ customRequest' = NoRequest
      ]_vars

\* A setBreakpoints request was taken up after the session ended and rejected.
C20_Witness ==
    /\ bridge = "Ended"
    /\ request.command = "setBreakpoints"
    /\ pc = "rejected"
    /\ response = SessionEndedError

\* ------------------------------------------------------------ cancellation

\* C21: once the session has ended, the response to a dumpCell request that
\* was awaiting it is discarded: the records, both maps and the files for
\* deletion stay as they were when the session ended.
C21_LateDumpIsDiscarded ==
    [][bridge = "Ended"
        => /\ store' = store
           /\ fileToCell' = fileToCell
           /\ cellToFile' = cellToFile
           /\ getDumpFilesForDeletion' = getDumpFilesForDeletion
      ]_vars

\* ------------------------------------------------------- location tracker

\* C22: a step in which the tracker was called lets no error escape and
\* does what it does without a tracker: the constructor leaves the session
\* active, the end of the session leaves it ended, and the message the
\* tracker was called with is passed on.
C22_TrackerFailureDoesNotAffectFlow ==
    [][trackerLog' # trackerLog
        => LET call == trackerLog'[Len(trackerLog')]
           IN  /\ thrown' = thrown
               /\ call.callback = "onWillStartSession" => bridge' = "Active"
               /\ call.callback = "onWillStopSession" => bridge' = "Ended"
               /\ "message" \in DOMAIN call
                    => \E to \in {"adapter", "editor"} :
                          flow' = Append(flow, [to |-> to, message |-> call.message])
      ]_vars

\* C29: with a tracker that defines both message callbacks, every message
\* that passes, from the editor or to the editor, is given to the tracker.
C29_TrackerReceivesEveryMessage ==
    [][(/\ flow' # flow
        /\ Defines("onWillReceiveMessage")
        /\ Defines("onDidSendMessage"))
        => /\ Len(trackerLog') = Len(trackerLog) + 1
           /\ trackerLog'[Len(trackerLog')].message = flow'[Len(flow')].message
      ]_vars

\* ------------------------------------------------------------ pass-through

\* The request in hand was taken up by the adapter's handler.
HandlerTookRequest == request # NoRequest /\ response # SessionEndedError

\* The request in hand went to the kernel session as one request with every
\* field as the editor sent it, and no custom request was sent for it.
PassedThrough ==
    /\ customRequest = NoRequest
    /\ Len(awaited) = 1
    /\ awaited[1].kind = "super"
    /\ awaited[1].forwarded = [command |-> request.command,
                               source |-> request.source,
                               location |-> request.location]

\* The message of the kernel in hand reached the editor with every field as
\* the kernel sent it.
DeliveredAsSent ==
    /\ clientMessage.source = kernelMessage.source
    /\ clientMessage.lines = kernelMessage.lines

Partitions ==
    /\ mode = "interactive"
    /\ bridge = "Active"
    /\ request = NoRequest
    /\ request' # NoRequest
    /\ request'.command = "2setBreakpoints"
    /\ store # <<>>
    /\ store[1].interactiveWindow.path = request'.source.path

\* The number of breakpoints the sub-requests before the k-th carry.
RECURSIVE CarriedBefore(_, _)
CarriedBefore(subs, k) ==
    IF k <= 1 THEN 0
    ELSE CarriedBefore(subs, k - 1) + Len(subs[k - 1].location.breakpoints)

\* The breakpoints of the request that went into the k-th sub-request: the
\* sub-requests take the owned breakpoints in request order, each as many
\* as it carries.
SubRequestBreakpoints(req, subs, k) ==
    LET owned == SelectSeq(BreakpointsOf(req), LAMBDA bp : OwnerOf(bp) # 0)
        before == CarriedBefore(subs, k)
    IN  SubSeq(owned, before + 1, before + Len(subs[k].location.breakpoints))

\* C26: each sub-request of the partitioner carries breakpoints of one
\* owning record only, and names that record's debug file.
C26_SubRequestOfOneRecord ==
    [][Partitions
        => LET subs == Forwarded(awaited')
           IN  \A k \in 1..Len(subs) :
                  LET bps == SubRequestBreakpoints(request', subs, k)
                  IN  /\ \A a, b \in 1..Len(bps) : OwnerOf(bps[a]) = OwnerOf(bps[b])
                      /\ subs[k].source.path = store[OwnerOf(bps[1])].debugFilePath
      ]_vars

\* --------------------------------------------------------------- lineOffset

\* The three terms of a record's lineOffset, from the record's metadata: the
\* lines the kernel strips, the cell's first line, the generated code's offset.
StrippedLines(metadata) ==
    IF "generatedCode" \notin DOMAIN metadata THEN 0
    ELSE IF metadata.generatedCode.hasCellMarker THEN 0
    ELSE metadata.generatedCode.firstNonBlankLineIndex

StartingLine(metadata) == metadata.interactive.lineIndex

CodeGenerationOffset(metadata) ==
    IF "generatedCode" \notin DOMAIN metadata THEN 0
    ELSE metadata.generatedCode.lineOffsetRelativeToIndexOfFirstLineInCell

\* C27: the lineOffset of every record is the number of stripped lines
\* (firstNonBlankLineIndex without a cell marker, else 0) plus the cell's
\* starting line index plus the code-generation offset (0 when absent).
C27_LineOffsetIsSumOfThree ==
    \A i \in 1..Len(store) :
        store[i].lineOffset = StrippedLines(store[i].metadata)
                              + StartingLine(store[i].metadata)
                              + CodeGenerationOffset(store[i].metadata)

\* Dumped: a cell that kept its marker, has a blank first line and a
\* code-generation offset, and a cell without marker that lost a line.
C27_Witness ==
    /\ \E i \in 1..Len(store) :
          /\ "generatedCode" \in DOMAIN store[i].metadata
          /\ store[i].metadata.generatedCode.hasCellMarker
          /\ store[i].metadata.generatedCode.firstNonBlankLineIndex > 0
          /\ CodeGenerationOffset(store[i].metadata) > 0
    /\ \E i \in 1..Len(store) : StrippedLines(store[i].metadata) > 0

\* ------------------------------------------------------ uniform translation

\* The step in which the interactive adapter hands what it forwards to the
\* base class, and what the base class's hook is called with: the request,
\* or each cloned request of the partitioner.
ForwardsRequest ==
    /\ mode = "interactive"
    /\ awaited = <<>>
    /\ Forwarded(awaited') # <<>>

HookInputs ==
    IF request'.command = "2setBreakpoints" /\ store # <<>>
       /\ store[1].interactiveWindow.path = request'.source.path
    THEN [k \in 1..Len(Forwarded(awaited')) |->
             [source |-> request'.source,
              location |-> [breakpoints |->
                  SubRequestBreakpoints(request', Forwarded(awaited'), k)]]]
    ELSE <<[source |-> request'.source, location |-> request'.location]>>

\* The record the request hook finds for a location, 0 for none: the record
\* that owns the start line, when it is a record of the source's file.
RecordForLocation(source, location) ==
    IF ~HasPath(source) THEN 0
    ELSE IF HasLine(location) /\ location.line # 0
    THEN LET c == FindCellForLine(store, location.line)
         IN  IF c # 0 /\ store[c].interactiveWindow.path = source.path THEN c ELSE 0
    ELSE IF HasBreakpoints(location) /\ Len(location.breakpoints) > 0
    THEN LET c == FindCellForLine(store, location.breakpoints[1].line)
         IN  IF c # 0 /\ store[c].interactiveWindow.path = source.path THEN c ELSE 0
    ELSE 0

\* The record the hook for kernel messages finds, 0 for none.
RecordForKernelLines(source, lines) ==
    IF HasPath(source) /\ (HasLine(lines) \/ HasLines(lines))
    THEN FindByDebugFilePath(store, source.path)
    ELSE 0

\* Every location field present in `in` is present in `out`, less by o.
AllFieldsLess(in, out, o) ==
    /\ DOMAIN out = DOMAIN in
    /\ HasLine(in) => out.line = in.line - o
    /\ HasEndLine(in) => out.endLine = in.endLine - o
    /\ HasBreakpoints(in)
          => /\ Len(out.breakpoints) = Len(in.breakpoints)
             /\ \A i \in 1..Len(in.breakpoints) :
                   out.breakpoints[i].line = in.breakpoints[i].line - o
    /\ HasLines(in)
          => /\ Len(out.lines) = Len(in.lines)
             /\ \A i \in 1..Len(in.lines) : out.lines[i] = in.lines[i] - o

C30_CodeHasNoCRLF ==
    code # NoText
       => \A i \in 1..(Len(code) - 1) : ~(code[i] = "CR" /\ code[i + 1] = "LF")

\* ------------------------------------------------------ errors of the hook

\* C31: translateRealLocationToDebuggerLocation raises no error, whatever
\* source and location it is called with: every request handed to the base
\* class leaves the hook translated or unchanged.
C31_HookRaisesNoError ==
    \A k \in 1..Len(awaited) : awaited[k].kind # "threw"

\* --------------------------------------------------- round trip of a message

\* C32: a message of the kernel that names the file of a record and a line,
\* taken to real coordinates and then back by the request hook, has the path
\* and the line the kernel gave it.
C32_MessageRoundTrip ==
    [][(/\ DeliversKernelMessage
        /\ mode = "interactive"
        /\ HasLine(kernelMessage'.lines)
        /\ ~HasLines(kernelMessage'.lines)
        /\ RecordForKernelLines(kernelMessage'.source, kernelMessage'.lines) # 0)
        => LET back == TranslateRealLocationToDebuggerLocation(
                           store, clientMessage'.source, clientMessage'.lines)
           IN  /\ ~back.threw
               /\ back.source.path = kernelMessage'.source.path
               /\ back.location.line = kernelMessage'.lines.line
      ]_vars

\* ------------------------------------------------- order of the merged response

\* The step in which the handler returns the response of a request its
\* partitioning branch took.
ReturnsPartitioned ==
    /\ mode = "interactive"
    /\ pc # "returned"
    /\ pc' = "returned"
    /\ request'.command = "2setBreakpoints"

\* C33: the response the partitioner returns has one entry per breakpoint of
\* the request, the i-th entry for the i-th breakpoint.
C33_OneEntryPerBreakpointInOrder ==
    [][ReturnsPartitioned
        => LET bps == BreakpointsOf(request')
               got == response'.body.breakpoints
           IN  /\ Len(got) = Len(bps)
               /\ \A i \in 1..Len(bps) : got[i].line = bps[i].line
      ]_vars

\* C33 (amended): the response the partitioner returns has as many entries
\* as the request has breakpoints.
C33_OneEntryPerBreakpoint ==
    [][ReturnsPartitioned
        => Len(response'.body.breakpoints) = Len(BreakpointsOf(request'))
      ]_vars

\* A request with an owned breakpoint before an unowned one was answered:
\* the fake entry comes first in the response.
C33_Witness ==
    /\ mode = "interactive"
    /\ pc = "returned"
    /\ request.command = "2setBreakpoints"
    /\ Len(awaited) = 2
    /\ awaited[1].kind = "fake"
    /\ IsSubRequest(awaited[2])
    /\ Len(response.body.breakpoints) = 2
    /\ response.body.breakpoints[1].line # BreakpointsOf(request)[1].line

\* ------------------------------------------------------ the notebook's maps

\* C34: in the notebook adapter cellToFile and fileToCell are inverse of each
\* other: a cell has a file exactly when the file has that cell.
C34_MapsAreInverse ==
    mode = "notebook"
       => /\ \A c \in DOMAIN cellToFile :
                /\ cellToFile[c] \in DOMAIN fileToCell
                /\ UriToString(fileToCell[cellToFile[c]]) = c
          /\ \A f \in DOMAIN fileToCell :
                /\ UriToString(fileToCell[f]) \in DOMAIN cellToFile
                /\ cellToFile[UriToString(fileToCell[f])] = f

\* ------------------------------------------------------------ the source map

\* The step in which the handler sends setPydevdSourceMap.
SendsSourceMap == customRequest = NoRequest /\ customRequest' # NoRequest

\* C35: runtimeSource.path of the setPydevdSourceMap request is '/private'
\* followed by the debug file of the cell the request's source and
\* breakpoints belong to.
C35_SourceMapNamesTheCellsFile ==
    [][SendsSourceMap
        => LET runtimePath == customRequest'.pydevdSourceMaps[1].runtimeSource.path
               path == request'.source.path
               bps == BreakpointsOf(request')
           IN  IF mode = "interactive"
               THEN \A i \in 1..Len(bps) :
                       LET c == OwnerOf(bps[i])
                       IN  (c # 0 /\ store[c].interactiveWindow.path = path)
                              => runtimePath = "/private" \o store[c].debugFilePath
               ELSE path \in DOMAIN cellToFile
                       => runtimePath = "/private" \o cellToFile[path]
      ]_vars

\* ------------------------------------------------------ two dumps in flight

\* The record of the store for a dump the kernel answered: the cell's own
\* metadata, the path the kernel returned for it, the cell's own lineOffset.
HasOwnRecord(d) ==
    LET metadata == getInteractiveCellMetadata(d.index)
        own == {i \in 1..Len(store) : store[i].metadata = metadata}
    IN  /\ Cardinality(own) = 1
        /\ \A i \in own :
              /\ store[i].debugFilePath = Normalize(d.sourcePath)
              /\ store[i].lineOffset = StrippedLines(metadata) + StartingLine(metadata)
                                        + CodeGenerationOffset(metadata)

\* C36: when the responses to the dumpCell calls of two cells that were in
\* flight together have both arrived, the store holds one record per cell,
\* with the cell's own path and lineOffset, in descending order of the
\* cells' lines.
C36_ConcurrentDumpsKeepTheirOwn ==
    (mode = "interactive" /\ dumping = {} /\ Cardinality(Successes) = 2)
       => /\ Len(store) = 2
          /\ \A d \in Successes : HasOwnRecord(d)
          /\ LineIndexOf(store[1]) >= LineIndexOf(store[2])

\* Both responses have arrived, with different paths, for cells of
\* different lines.
C36_Witness ==
    /\ mode = "interactive"
    /\ dumping = {}
    /\ Cardinality(Successes) = 2
    /\ Len(store) = 2
    /\ store[1].debugFilePath # store[2].debugFilePath
    /\ LineIndexOf(store[1]) > LineIndexOf(store[2])

\* A getOrCreate call is made in this step.
IsGetOrCreate == kernelCall'.count # kernelCall.count

\* C37: getOrCreate is idempotent for an unchanged kernel selection: a call
\* for a notebook (or uri) whose stored kernel was created for the same
\* metadata.id returns that very kernel, creates no kernel and disposes of
\* none.
C37_GetOrCreateIsIdempotent ==
    [][\A provider \in Providers, resource \in Resources :
          LET existing == storedKernels[provider][resource]
          IN  (/\ IsGetOrCreate
               /\ kernelCall'.provider = provider
               /\ kernelCall'.resource = resource
               /\ existing # NoKernelInfo
               /\ existing.options.metadata.id = kernelCall'.options.metadata.id)
              => /\ kernelCall'.returned = existing.kernel
                 /\ createdKernels' = createdKernels
                 /\ handedToDispose' = handedToDispose
                 /\ disposedKernels' = disposedKernels
                 /\ storedKernels' = storedKernels]_vars

\* A second call with the same selection was answered with the first
\* call's kernel.
C37_Witness ==
    /\ kernelCall.count = 2
    /\ Len(createdKernels) = 1
    /\ kernelCall.returned = 1
    /\ createdKernels[1].kernelConnectionMetadata = kernelCall.options.metadata
    /\ handedToDispose = {}

\* The kernels a provider created for a notebook (or uri).
KernelsOf(provider, resource) ==
    {k \in 1..Len(createdKernels) :
        createdKernels[k].provider = provider /\ createdKernels[k].uri = resource}

\* What holds of the stored kernels after every step.
StoredKernelIsTheLatest ==
    \A provider \in Providers, resource \in Resources :
        LET info == storedKernels'[provider][resource]
        IN  info # NoKernelInfo
            => /\ info.kernel \in KernelsOf(provider, resource)'
               /\ info.kernel \notin handedToDispose'
               /\ \A k \in KernelsOf(provider, resource)' :
                    /\ k <= info.kernel
                    /\ k # info.kernel => k \in handedToDispose' \cup disposedKernels'

\* C38: at most one kernel that was not handed to disposeOldKernel is stored
\* per notebook (or uri): a getOrCreate call with a metadata.id other than
\* the stored kernel's hands the old kernel to disposeOldKernel and stores
\* the kernel it creates, as a call for a notebook with no stored kernel
\* does, and the stored kernel is always the one created by the latest
\* such call.
C38_OneLiveKernelPerNotebook ==
    [][/\ StoredKernelIsTheLatest
       /\ \A provider \in Providers, resource \in Resources :
            LET old == storedKernels[provider][resource]
                new == storedKernels'[provider][resource]
            IN  (/\ IsGetOrCreate
                 /\ kernelCall'.provider = provider
                 /\ kernelCall'.resource = resource
                 /\ \/ old = NoKernelInfo
                    \/ old.options.metadata.id # kernelCall'.options.metadata.id)
                => /\ old # NoKernelInfo => old.kernel \in handedToDispose'
                   /\ Len(createdKernels') = Len(createdKernels) + 1
                   /\ new = [options |-> kernelCall'.options, kernel |-> Len(createdKernels')]
                   /\ kernelCall'.returned = new.kernel]_vars

\* A notebook's kernel was replaced: the first was handed to disposeOldKernel
\* and the second, created for another kernel connection, is stored.
C38_Witness ==
    \E provider \in Providers, resource \in Resources :
        /\ KernelsOf(provider, resource) = {1, 2}
        /\ 1 \in handedToDispose
        /\ storedKernels[provider][resource] # NoKernelInfo
        /\ storedKernels[provider][resource].kernel = 2
        /\ createdKernels[1].kernelConnectionMetadata # createdKernels[2].kernelConnectionMetadata


\* How many times an event was delivered by an emitter, and fired with a type.
TimesDelivered(emitter, e) ==
    Cardinality({i \in DOMAIN delivered : delivered[i] = [emitter |-> emitter, event |-> e]})
TimesFired(e, type) ==
    Cardinality({i \in DOMAIN fired : fired[i] = WithType(e, type)})

\* C39: each cells-change event of the host is forwarded at most once: an
\* event object delivered again fires no second 'changeCells' event.
C39_CellsChangeForwardedOnce ==
    \A e \in HostEvents :
        /\ TimesFired(e, "changeCells") <= 1
        /\ TimesDelivered("onDidChangeNotebookCells", e) >= 1
              => TimesFired(e, "changeCells") = 1

\* An event object came twice and was forwarded once.
C39_Witness ==
    \E e \in HostEvents :
        /\ TimesDelivered("onDidChangeNotebookCells", e) = 2
        /\ TimesFired(e, "changeCells") = 1

====
